---- MODULE Spec2Model ----
(***************************************************************************)
(* PinMuxLab: the pin-capability inference (chipInferencer.ts) and the     *)
(* function-assignment store (chipStore.ts).                               *)
(*                                                                         *)
(* JavaScript objects whose key order is observable (peripherals, pinmaps, *)
(* pins) are sequences of entries in insertion order; arrays are           *)
(* sequences; array index i of the source is position i + 1 here.          *)
(* Strings are TLA+ strings, built by \o exactly as the template literals  *)
(* of the source build them.                                               *)
(***************************************************************************)
EXTENDS Integers, Sequences, FiniteSets, TLC

\* ------------------------------------------------------------------------
\* Generic helpers (Array.prototype.includes, Set insertion order, min)
\* ------------------------------------------------------------------------
Includes(s, x) == \E i \in DOMAIN s : s[i] = x

\* [...new Set(s)] : first occurrences, in order
Unique(s) == SelectSeq([i \in DOMAIN s |-> [v |-> s[i], first |-> \A j \in 1..(i - 1) : s[j] # s[i]]],
                       LAMBDA e : e.first)

Values(s) == [i \in DOMAIN s |-> s[i].v]

Dedup(s) == Values(Unique(s))

Entry(sig, pin) == [sig |-> sig, pin |-> pin]

RECURSIVE Concat(_)
Concat(ss) == IF ss = << >> THEN << >> ELSE Head(ss) \o Concat(Tail(ss))

\* ------------------------------------------------------------------------
\* Chip descriptions handed to loadChip (the JSON assets).
\*   package     : pin names in physical order (PhysicalPin.number = index)
\*   pins        : PinCapability entries (present in the normalized shape)
\*   peripherals : entries in key order.  flat = TRUE is a normalized
\*                 PeripheralDefinition (carries pinmaps/signals/group
\*                 directly, key = peripheral name); flat = FALSE is a
\*                 category whose subs are the instances (Description is
\*                 the only non-instance key).
\* ------------------------------------------------------------------------
Cap(name, type, functions) ==
  [name |-> name, type |-> type, fixed |-> (type # "gpio"), functions |-> functions]

Sig(sig, pins) == [sig |-> sig, pins |-> pins]

FlatPeriph(name, group, signals, pinmaps) ==
  [key |-> name, flat |-> TRUE, Description |-> "", group |-> group,
   signals |-> signals, pinmaps |-> pinmaps, subs |-> << >>]

Category(key, desc, subs) ==
  [key |-> key, flat |-> FALSE, Description |-> desc, group |-> "",
   signals |-> << >>, pinmaps |-> << >>, subs |-> subs]

Instance(key, pinmaps) == [key |-> key, pinmaps |-> pinmaps]

\* normalized description with suffixed remap functions (USART1 remap, SPI1)
RawSuffixed ==
  [meta |-> [name |-> "CH32X"],
   package |-> <<"PA9", "PA10", "PB6", "PB7">>,
   pins |-> << Cap("PA9", "gpio", <<"GPIO", "USART1_TX">>),
               Cap("PA10", "gpio", <<"GPIO", "USART1_RX">>),
               Cap("PB6", "gpio", <<"GPIO", "USART1_TX_1">>),
               Cap("PB7", "gpio", <<"GPIO", "USART1_RX_1", "SPI1_MISO">>) >>,
   peripherals |-> <<
     FlatPeriph("USART1", "UART/USART",
                << Sig("TX", <<"PA9", "PB6">>), Sig("RX", <<"PA10", "PB7">>) >>,
                << << Entry("TX", "PA9"), Entry("RX", "PA10") >>,
                   << Entry("TX", "PB6"), Entry("RX", "PB7") >> >>),
     FlatPeriph("SPI1", "SPI", << Sig("MISO", <<"PB7">>) >>,
                << << Entry("MISO", "PB7") >> >>) >>]

\* the same chip in the nested category -> instance shape of the v2.0 assets
RawNested ==
  [meta |-> [name |-> "CH32X"],
   package |-> <<"PA9", "PA10", "PB6", "PB7">>,
   pins |-> << >>,
   peripherals |-> <<
     Category("UART/USART", "uart",
              << Instance("USART1", << << Entry("TX", "PA9"), Entry("RX", "PA10") >>,
                                       << Entry("TX", "PB6"), Entry("RX", "PB7") >> >>) >>),
     Category("SPI", "spi",
              << Instance("SPI1", << << Entry("MISO", "PB7") >> >>) >>) >>]

\* normalized description whose remap swaps TX and RX (CH32V003 USART1)
RawSwap ==
  [meta |-> [name |-> "CH32V003"],
   package |-> <<"VSS", "PD5", "PD6">>,
   pins |-> << Cap("VSS", "gnd", <<"GND">>),
               Cap("PD5", "gpio", <<"GPIO", "USART1_TX", "USART1_RX_1">>),
               Cap("PD6", "gpio", <<"GPIO", "USART1_RX", "USART1_TX_1">>) >>,
   peripherals |-> <<
     FlatPeriph("USART1", "UART/USART",
                << Sig("TX", <<"PD5", "PD6">>), Sig("RX", <<"PD6", "PD5">>) >>,
                << << Entry("TX", "PD5"), Entry("RX", "PD6") >>,
                   << Entry("TX", "PD6"), Entry("RX", "PD5") >> >>) >>]

\* nested description with instance keys "" and "default" (bare signal names)
\* and a mapping to a pin that is not in the package
RawSys ==
  [meta |-> [name |-> "CH32SYS"],
   package |-> <<"PA14", "NRST", "PA13">>,
   pins |-> << >>,
   peripherals |-> <<
     Category("SYS", "system",
              << Instance("", << << Entry("SWDIO", "PA13"), Entry("SWCLK", "PA14") >> >>) >>),
     Category("DEBUG", "trace",
              << Instance("default", << << Entry("SWO", "PB3") >> >>) >>) >>]

RawChips == << RawSuffixed, RawNested, RawSwap, RawSys >>

\* ------------------------------------------------------------------------
\* chipInferencer.ts
\* ------------------------------------------------------------------------
\* String.prototype.startsWith over the pin names of the assets: the tails
\* that may follow a supply / boot prefix.
PinNameTails == {"", "A", "IO", "0", "1", "2"}

StartsWith(name, prefix) == \E t \in PinNameTails : name = prefix \o t

\* getPinType without its BOOT rule
getPinType_NoBoot(name) ==
  IF StartsWith(name, "VDD") \/ name = "VBAT" THEN "power"
  ELSE IF StartsWith(name, "VSS") \/ name = "GND" \/ name = "VSSA" THEN "gnd"
  ELSE IF name = "NRST" THEN "reset"
  ELSE "gpio"

getPinType(name) ==
  IF StartsWith(name, "VDD") \/ name = "VBAT" THEN "power"
  ELSE IF StartsWith(name, "VSS") \/ name = "GND" \/ name = "VSSA" THEN "gnd"
  ELSE IF name = "NRST" THEN "reset"
  ELSE IF StartsWith(name, "BOOT") THEN "boot"
  ELSE "gpio"

typeOrder(type) ==
  CASE type = "power" -> 1
    [] type = "gnd" -> 2
    [] type = "reset" -> 3
    [] type = "boot" -> 4
    [] type = "gpio" -> 5
    [] OTHER -> 99

\* a.localeCompare(b, undefined, {numeric: true, sensitivity: 'base'}) on pin
\* names made of a letter run and an optional digit run: the letter runs in
\* collation order, the digit run compared as a number.
LetterRuns == <<"BOOT", "GND", "NRST", "PA", "PB", "PC", "PD", "VBAT", "VDD", "VDDA", "VDDIO",
                "VSS", "VSSA">>

MaxPinNumber == 15

\* sensitivity 'base' ignores case: the names with lower-case letters and
\* their upper-case forms
toUpperCase(name) ==
  CASE name = "vdda" -> "VDDA"
    [] name = "boot1" -> "BOOT1"
    [] OTHER -> name

NameKey(name) ==
  LET keyOf(upper) ==
        IF \E i \in DOMAIN LetterRuns : upper = LetterRuns[i]
        THEN [run |-> CHOOSE i \in DOMAIN LetterRuns : upper = LetterRuns[i], num |-> -1]
        ELSE CHOOSE k \in [run : DOMAIN LetterRuns, num : 0..MaxPinNumber] :
               upper = LetterRuns[k.run] \o ToString(k.num)
  IN  keyOf(toUpperCase(name))

\* the comparison without {numeric: true}: the digit runs compared as text,
\* so "10" sorts before "2"
localeCompare_Text(a, b) ==
  LET textRank(n) == IF n < 0 THEN n
                     ELSE IF n >= 10 THEN (n \div 10) * 100 + (n % 10) + 1
                     ELSE n * 100
      ka == NameKey(a)
      kb == NameKey(b)
  IN  IF ka.run # kb.run THEN ka.run - kb.run ELSE textRank(ka.num) - textRank(kb.num)

localeCompare(a, b) ==
  LET ka == NameKey(a)
      kb == NameKey(b)
  IN  IF ka.run # kb.run THEN ka.run - kb.run ELSE ka.num - kb.num

pinOrderLess(a, b) ==
  LET orderA == typeOrder(getPinType(a))
      orderB == typeOrder(getPinType(b))
  IN  IF orderA # orderB THEN orderA < orderB ELSE localeCompare(a, b) < 0

\* every (category, instance, scheme, signal, pin) of the nested description,
\* in the iteration order of the three nested loops
InstanceTuples(cat, sub) ==
  Concat([m \in DOMAIN sub.pinmaps |->
            [k \in DOMAIN sub.pinmaps[m] |->
               [categoryKey |-> cat.key, subKey |-> sub.key, mapIndex |-> m - 1,
                signalName |-> sub.pinmaps[m][k].sig, pinName |-> sub.pinmaps[m][k].pin]]])

MappingTuples(rawPeripherals) ==
  Concat([c \in DOMAIN rawPeripherals |->
            Concat([s \in DOMAIN rawPeripherals[c].subs |->
                      InstanceTuples(rawPeripherals[c], rawPeripherals[c].subs[s])])])

\* the function name added to the pin (lines 102-112)
inferredFuncName(subKey, signalName) ==
  IF subKey = "" \/ subKey = "default" THEN signalName ELSE subKey \o "_" \o signalName

\* pinFunctions[pinName] as an insertion-ordered Set
pinFunctionsOf(tuples, pinName) ==
  LET mine == SelectSeq(tuples, LAMBDA t : t.pinName = pinName)
  IN  Dedup([i \in DOMAIN mine |-> inferredFuncName(mine[i].subKey, mine[i].signalName)])

\* the signals index of one instance: signal -> reachable pins, no duplicates
instanceSignals(cat, sub) ==
  LET ts == InstanceTuples(cat, sub)
      sigs == Dedup([i \in DOMAIN ts |-> ts[i].signalName])
  IN  [i \in DOMAIN sigs |->
         LET mine == SelectSeq(ts, LAMBDA t : t.signalName = sigs[i])
         IN  Sig(sigs[i], Dedup([j \in DOMAIN mine |-> mine[j].pinName]))]

normalizedPeripheral(cat, sub) ==
  [key |-> IF sub.key = "" \/ sub.key = "default" THEN cat.key ELSE sub.key,
   flat |-> TRUE, Description |-> cat.Description, group |-> cat.key,
   signals |-> instanceSignals(cat, sub), pinmaps |-> sub.pinmaps, subs |-> << >>]

\* normalizedPeripherals[periphName] = ... : a repeated name overwrites in place
RECURSIVE assignPeripherals(_, _)
assignPeripherals(acc, defs) ==
  IF defs = << >> THEN acc
  ELSE LET d == Head(defs)
       IN  IF \E i \in DOMAIN acc : acc[i].key = d.key
           THEN assignPeripherals([i \in DOMAIN acc |-> IF acc[i].key = d.key THEN d ELSE acc[i]],
                                  Tail(defs))
           ELSE assignPeripherals(Append(acc, d), Tail(defs))

normalizedPeripherals(rawPeripherals) ==
  assignPeripherals(<< >>,
    Concat([c \in DOMAIN rawPeripherals |->
              [s \in DOMAIN rawPeripherals[c].subs |->
                 normalizedPeripheral(rawPeripherals[c], rawPeripherals[c].subs[s])]]))

\* functions of one pin (lines 160-198)
\* the capability without the move of GPIO to the front (lines 173-179):
\* GPIO stays where the mappings put it, or is appended
inferredCapability_NoFront(tuples, pinName) ==
  LET type == getPinType(pinName)
      inferred == pinFunctionsOf(tuples, pinName)
      functions ==
        IF type = "gpio"
        THEN IF Includes(inferred, "GPIO") THEN inferred ELSE inferred \o <<"GPIO">>
        ELSE IF Len(inferred) # 0 THEN inferred
        ELSE IF type = "gnd" THEN <<"GND">>
        ELSE IF type = "reset" THEN <<"NRST">>
        ELSE <<pinName>>
  IN  [name |-> pinName, type |-> type, fixed |-> (type # "gpio"), functions |-> Dedup(functions)]

inferredCapability(tuples, pinName) ==
  LET type == getPinType(pinName)
      inferred == pinFunctionsOf(tuples, pinName)
      functions ==
        IF type = "gpio"
        THEN <<"GPIO">> \o SelectSeq(inferred, LAMBDA f : f # "GPIO")
        ELSE IF Len(inferred) # 0 THEN inferred
        ELSE IF type = "gnd" THEN <<"GND">>
        ELSE IF type = "reset" THEN <<"NRST">>
        ELSE <<pinName>>
  IN  [name |-> pinName, type |-> type, fixed |-> (type # "gpio"), functions |-> Dedup(functions)]

\* the format test without the "already normalized" shortcut of lines 26-43
isOldFormat_Never(raw) == FALSE

isOldFormat(raw) ==
  IF Len(raw.peripherals) > 0 THEN raw.peripherals[1].flat ELSE Len(raw.pins) > 0

inferChipData(raw) ==
  IF isOldFormat(raw) THEN raw
  ELSE LET tuples == MappingTuples(raw.peripherals)
           distinctPins == Dedup(raw.package \o [i \in DOMAIN tuples |-> tuples[i].pinName])
           sortedPinNames == SortSeq(distinctPins, pinOrderLess)
       IN  [meta |-> raw.meta,
            package |-> raw.package,
            pins |-> [i \in DOMAIN sortedPinNames |-> inferredCapability(tuples, sortedPinNames[i])],
            peripherals |-> normalizedPeripherals(raw.peripherals)]

\* what inferChipData writes to the console: lines 15-206 contain no
\* console call and no throw, whatever the description
inferConsole(raw) == << >>

\* the ChipDefinition loadChip obtains for each asset
Chips == [i \in DOMAIN RawChips |-> inferChipData(RawChips[i])]

\* ------------------------------------------------------------------------
\* chipStore.ts : pure parts
\* ------------------------------------------------------------------------
\* currentChip = 0 stands for null, i >= 1 for the object Chips[i]
NoChip == 0

\* the assignment table is a function whose domain is the set of keys
EmptyConfig == << >>

HasKey(config, pin) == pin \in DOMAIN config

\* "delete newConfig[pinName]" emptying the whole table
DeleteKey_All(config, pin) == EmptyConfig

DeleteKey(config, pin) == [q \in (DOMAIN config) \ {pin} |-> config[q]]

SetKey(config, pin, func) ==
  [q \in (DOMAIN config) \cup {pin} |-> IF q = pin THEN func ELSE config[q]]

storageKey(chip) == "pinmux_config_" \o Chips[chip].meta.name

getPinFunctions(chip, pinName) ==
  IF chip = NoChip THEN << >>
  ELSE LET functionsIn(pins) ==
             IF \E i \in DOMAIN pins : pins[i].name = pinName
             THEN pins[CHOOSE i \in DOMAIN pins : pins[i].name = pinName].functions
             ELSE << >>
       IN  functionsIn(Chips[chip].pins)

\* the suffix written for every scheme, the default scheme included
suffixOf_Every(mapIndex) == "_" \o ToString(mapIndex)

suffixOf(mapIndex) == IF mapIndex = 0 THEN "" ELSE "_" \o ToString(mapIndex)

fullName(periphName, signalName, mapIndex) ==
  periphName \o "_" \o signalName \o suffixOf(mapIndex)

shortName(signalName, mapIndex) == signalName \o suffixOf(mapIndex)

NoContext == [periphName |-> "", signalName |-> "", mapIndex |-> -1, periph |-> 0]

\* the scan returning its last match instead of its first
findInPeripherals_Last(ps, funcName, pinName) ==
  LET Pos == UNION {UNION {{<<p, m, k>> : k \in DOMAIN ps[p].pinmaps[m]} :
                             m \in DOMAIN ps[p].pinmaps} : p \in DOMAIN ps}
      Hit(pos) ==
        LET e == ps[pos[1]].pinmaps[pos[2]][pos[3]]
        IN  /\ (pinName = "" \/ e.pin = pinName)
            /\ \/ funcName = fullName(ps[pos[1]].key, e.sig, pos[2] - 1)
               \/ funcName = shortName(e.sig, pos[2] - 1)
      After(a, b) ==
        \/ a[1] > b[1]
        \/ a[1] = b[1] /\ a[2] > b[2]
        \/ a[1] = b[1] /\ a[2] = b[2] /\ a[3] >= b[3]
      found(hits) ==
        IF hits = {} THEN NoContext
        ELSE LET last_ == CHOOSE a \in hits : \A b \in hits : After(a, b)
             IN  [periphName |-> ps[last_[1]].key,
                  signalName |-> ps[last_[1]].pinmaps[last_[2]][last_[3]].sig,
                  mapIndex |-> last_[2] - 1,
                  periph |-> last_[1]]
  IN  found({pos \in Pos : Hit(pos)})

\* pinName = "" is the omitted argument.  The result is the first match of
\* the three nested loops: peripherals, then pinmaps, then signals.
findInPeripherals(ps, funcName, pinName) ==
  LET Pos == UNION {UNION {{<<p, m, k>> : k \in DOMAIN ps[p].pinmaps[m]} :
                             m \in DOMAIN ps[p].pinmaps} : p \in DOMAIN ps}
      Hit(pos) ==
        LET e == ps[pos[1]].pinmaps[pos[2]][pos[3]]
        IN  /\ (pinName = "" \/ e.pin = pinName)
            /\ \/ funcName = fullName(ps[pos[1]].key, e.sig, pos[2] - 1)
               \/ funcName = shortName(e.sig, pos[2] - 1)
      Before(a, b) ==
        \/ a[1] < b[1]
        \/ a[1] = b[1] /\ a[2] < b[2]
        \/ a[1] = b[1] /\ a[2] = b[2] /\ a[3] <= b[3]
      found(hits) ==
        IF hits = {} THEN NoContext
        ELSE LET first == CHOOSE a \in hits : \A b \in hits : Before(a, b)
             IN  [periphName |-> ps[first[1]].key,
                  signalName |-> ps[first[1]].pinmaps[first[2]][first[3]].sig,
                  mapIndex |-> first[2] - 1,
                  periph |-> first[1]]
  IN  found({pos \in Pos : Hit(pos)})

\* findFunctionContext reads currentChip.value.peripherals
findFunctionContext(chip, funcName, pinName) ==
  IF chip = NoChip THEN NoContext
  ELSE findInPeripherals(Chips[chip].peripherals, funcName, pinName)

\* every pin name and function name of the assets, and the arguments tried
\* besides them
UnknownPin == "PZ0"
ProbeFuncs == {"NOPE"}

PinUniverse ==
  LET namesIn(chips) ==
        UNION {{chips[c].pins[i].name : i \in DOMAIN chips[c].pins} : c \in DOMAIN chips}
  IN  namesIn(Chips) \cup {UnknownPin, ""}

FunctionUniverse ==
  LET functionsIn(chips) ==
        UNION {UNION {{chips[c].pins[i].functions[j] : j \in DOMAIN chips[c].pins[i].functions} :
                        i \in DOMAIN chips[c].pins} : c \in DOMAIN chips}
  IN  functionsIn(Chips) \cup ProbeFuncs

\* findFunctionContext tabulated once per chip (the scan reads only the chip)
contextTable ==
  [c \in DOMAIN RawChips |-> [f \in FunctionUniverse |-> [p \in PinUniverse |->
     findFunctionContext(c, f, p)]]]

\* the lookup of step 0 without its candidate pin
contextOf_AnyPin(chip, funcName, pinName) ==
  IF chip = NoChip THEN NoContext ELSE contextTable[chip][funcName][""]

contextOf(chip, funcName, pinName) ==
  IF chip = NoChip THEN NoContext ELSE contextTable[chip][funcName][pinName]

\* "c && c.periphName === periphName && c.signalName === sig"
holdsSignal(chip, func, periphName, sig) ==
  LET matches(c) == c # NoContext /\ c.periphName = periphName /\ c.signalName = sig
  IN  matches(contextOf(chip, func, ""))

\* entries of config whose function resolves to (periphName, sig)
holders(chip, config, periphName, sig) ==
  {p \in DOMAIN config : holdsSignal(chip, config[p], periphName, sig)}

\* step 1 left out: the other holders of the signal keep their entries
clearSameSignal_Keep(chip, config, pinName, context) == config

\* step 1 clearing every other entry, whatever it resolves to
clearSameSignal_Every(chip, config, pinName, context) ==
  [q \in (DOMAIN config) \cap {pinName} |-> config[q]]

\* 1. Conflict Resolution: clear the same signal from other pins
clearSameSignal(chip, config, pinName, context) ==
  [q \in (DOMAIN config) \ (holders(chip, config, context.periphName, context.signalName) \ {pinName})
     |-> config[q]]

\* target function name of a sibling signal on its pin in the target pinmap
targetFuncOf(chip, context, e) ==
  LET possibleFunc1 == fullName(context.periphName, e.sig, context.mapIndex)
      possibleFunc2 == shortName(e.sig, context.mapIndex)
      pick(pinFuncs) ==
        IF Includes(pinFuncs, possibleFunc1) THEN possibleFunc1
        ELSE IF Includes(pinFuncs, possibleFunc2) THEN possibleFunc2
        ELSE ""
  IN  pick(getPinFunctions(chip, e.pin))

\* the examination without the signalActive test of lines 147-157: every
\* sibling that has a target function is examined
examined_Inactive(chip, config, context) ==
  SelectSeq(Chips[chip].peripherals[context.periph].pinmaps[context.mapIndex + 1],
            LAMBDA e : e.sig # context.signalName /\ targetFuncOf(chip, context, e) # "")

\* the sibling entries of the target pinmap that are examined: not the
\* signal itself, a target function exists, the signal is active on some pin
examined(chip, config, context) ==
  SelectSeq(Chips[chip].peripherals[context.periph].pinmaps[context.mapIndex + 1],
            LAMBDA e : /\ e.sig # context.signalName
                       /\ targetFuncOf(chip, context, e) # ""
                       /\ holders(chip, config, context.periphName, e.sig) # {})

\* every target pin counted as free
targetFree_Always(chip, config, context, e) == TRUE

\* the test of line 162 without "|| currentOwner === targetFunc"
targetFree_OnlyEmpty(chip, config, context, e) ==
  \/ ~HasKey(config, e.pin)
  \/ config[e.pin] = ""

targetFree(chip, config, context, e) ==
  \/ ~HasKey(config, e.pin)
  \/ config[e.pin] = ""
  \/ config[e.pin] = targetFuncOf(chip, context, e)

\* no sibling signal is ever scheduled for migration
switchOperations_None(chip, config, context) == << >>

switchOperations(chip, config, context) ==
  LET push(es) ==
        [i \in DOMAIN es |-> [pin |-> es[i].pin, func |-> targetFuncOf(chip, context, es[i])]]
  IN  push(SelectSeq(examined(chip, config, context),
                     LAMBDA e : targetFree(chip, config, context, e)))

conflictText(sig, targetPin, currentOwner) ==
  sig \o " -> " \o targetPin \o " (Occupied by " \o currentOwner \o ")"

conflictsOf(chip, config, context) ==
  LET push(es) ==
        [i \in DOMAIN es |-> conflictText(es[i].sig, es[i].pin, config[es[i].pin])]
  IN  push(SelectSeq(examined(chip, config, context),
                     LAMBDA e : ~targetFree(chip, config, context, e)))

\* the switches applied without "First clear old pins for these signals"
clearOldPins_Keep(chip, config, ops) == config

\* "First clear old pins for these signals"
RECURSIVE clearOldPins(_, _, _)
clearOldPins(chip, config, ops) ==
  IF ops = << >> THEN config
  ELSE LET cleared(ctx) ==
             IF ctx = NoContext THEN config
             ELSE [q \in (DOMAIN config) \ holders(chip, config, ctx.periphName, ctx.signalName)
                     |-> config[q]]
       IN  clearOldPins(chip, cleared(contextOf(chip, Head(ops).func, "")), Tail(ops))

\* "Then set new"
RECURSIVE setNewPins(_, _)
setNewPins(config, ops) ==
  IF ops = << >> THEN config
  ELSE setNewPins(SetKey(config, Head(ops).pin, Head(ops).func), Tail(ops))

\* the guard of lines 102-106 left out
isSupported_Always(chip, pinName, func) == TRUE

\* "supported.includes(func)" (lines 102-103)
isSupported(chip, pinName, func) == Includes(getPinFunctions(chip, pinName), func)

\* linkage with the "return // Abort operation" missing: the call goes on to
\* set the requested pin and commits the working copy
linkage_NoAbort(chip, config, newConfig, pinName, func, context) ==
  LET apply(ops, conflicts) ==
        IF Len(conflicts) > 0 THEN
          [outcome |-> "conflict", config |-> SetKey(newConfig, pinName, func),
           conflicts |-> conflicts, context |-> context]
        ELSE
          [outcome |-> "assigned",
           config |-> SetKey(setNewPins(clearOldPins(chip, newConfig, ops), ops), pinName, func),
           conflicts |-> << >>, context |-> context]
  IN  apply(switchOperations(chip, newConfig, context), conflictsOf(chip, newConfig, context))

\* 2. Group Switching (Linkage), then "Set the requested pin"; config is
\* pinConfigurations.value, newConfig the working copy after step 1
linkage(chip, config, newConfig, pinName, func, context) ==
  LET apply(ops, conflicts) ==
        IF Len(conflicts) > 0 THEN
          [outcome |-> "conflict", config |-> config, conflicts |-> conflicts,
           context |-> context]
        ELSE
          [outcome |-> "assigned",
           config |-> SetKey(setNewPins(clearOldPins(chip, newConfig, ops), ops), pinName, func),
           conflicts |-> << >>, context |-> context]
  IN  apply(switchOperations(chip, newConfig, context), conflictsOf(chip, newConfig, context))

\* the loop of usageStats (lines 241-262) over the package pin list: a pin
\* without a capability is skipped, a fixed pin counts, any other pin counts
\* when its entry is a non-empty string
RECURSIVE countOccupied(_, _, _)
countOccupied(package, pins, config) ==
  IF package = << >> THEN 0
  ELSE LET counts(caps) ==
             IF caps = << >> THEN 0
             ELSE IF caps[1].fixed THEN 1
             ELSE IF HasKey(config, Head(package)) /\ config[Head(package)] # "" THEN 1
             ELSE 0
       IN  counts(SelectSeq(pins, LAMBDA c : c.name = Head(package)))
             + countOccupied(Tail(package), pins, config)

\* usageStats without the "fixed pins count as occupied" branch
usageStatsOf_NoFixed(package, pins, config) ==
  [occupied |-> Cardinality({i \in DOMAIN package :
                   /\ \E j \in DOMAIN pins : pins[j].name = package[i]
                   /\ HasKey(config, package[i]) /\ config[package[i]] # ""}),
   total |-> Len(package)]

usageStatsOf(package, pins, config) ==
  [occupied |-> countOccupied(package, pins, config), total |-> Len(package)]

usageStats(chip, config) ==
  IF chip = NoChip THEN [occupied |-> 0, total |-> 0]
  ELSE usageStatsOf(Chips[chip].package, Chips[chip].pins, config)

\* setPinFunction as a function of the store's state: the outcome, the table
\* it leaves in pinConfigurations, and the conflicts it shows.
\*   outcome: "noChip" | "cleared" | "unsupported" | "conflict" | "assigned"
setPinFunctionResult(chip, config, pinName, func) ==
  IF chip = NoChip THEN
    [outcome |-> "noChip", config |-> config, conflicts |-> << >>, context |-> NoContext]
  ELSE IF func = "" THEN
    [outcome |-> "cleared", config |-> DeleteKey(config, pinName), conflicts |-> << >>,
     context |-> NoContext]
  ELSE IF ~isSupported(chip, pinName, func) THEN
    [outcome |-> "unsupported", config |-> config, conflicts |-> << >>, context |-> NoContext]
  ELSE
    LET assign(context) ==
          IF context = NoContext THEN
            [outcome |-> "assigned", config |-> SetKey(config, pinName, func),
             conflicts |-> << >>, context |-> NoContext]
          ELSE
            linkage(chip, config, clearSameSignal(chip, config, pinName, context),
                    pinName, func, context)
    IN  assign(contextOf(chip, func, pinName))

\* ------------------------------------------------------------------------
\* The stores as a state machine
\* ------------------------------------------------------------------------
\* loadChip calls and setPinFunction calls explored in one behaviour of Spec
MaxLoads == 2
MaxCalls == 3


VARIABLES
  currentChip,        \* chipStore.currentChip (NoChip = null)
  pinConfigurations,  \* chipStore.pinConfigurations
  localStorage,       \* window.localStorage: storage key -> saved table
  modal,              \* uiStore: modalVisible, and the values interpolated into modalContent
  loads,              \* number of loadChip calls so far
  calls,              \* number of setPinFunction calls so far (stops at MaxCalls)
  last,               \* the most recent store call: arguments, outcome, state before it
  inference,          \* an inferChipData call chain: its argument, its latest return value
  call,               \* a setPinFunction call followed statement by statement: its locals
  resolution,         \* a findFunctionContext call: the index it scans, its arguments, its result
  card                \* one PeripheralCard: its peripheral, selectedMapIndex, its queued watcher

vars == <<currentChip, pinConfigurations, localStorage, modal, loads, calls, last, inference,
          call, resolution, card>>

NoModal == [visible |-> FALSE, periphName |-> "", conflicts |-> << >>]

snapshot ==
  [currentChip |-> currentChip, pinConfigurations |-> pinConfigurations,
   localStorage |-> localStorage, modal |-> modal]

NoCall ==
  [op |-> "none", pin |-> "", func |-> "", outcome |-> "", conflicts |-> << >>,
   context |-> NoContext,
   before |-> [currentChip |-> NoChip, pinConfigurations |-> EmptyConfig,
               localStorage |-> << >>, modal |-> NoModal]]

\* no setPinFunction call is followed statement by statement
NoActivation ==
  [pc |-> "idle", pinName |-> "", func |-> "", newConfig |-> << >>, context |-> NoContext,
   switchOperations |-> << >>, conflicts |-> << >>, writes |-> 0,
   prior |-> << >>, priorStorage |-> << >>]

\* no PeripheralCard is mounted.  periph is the position of the card's
\* peripheral in currentChip.peripherals, pending/oldVal the queued callback
\* of watch(selectedMapIndex), before the table that callback found
NoCard ==
  [periph |-> 0, selectedMapIndex |-> 0, pending |-> FALSE, oldVal |-> 0,
   ran |-> FALSE, before |-> << >>]

\* no findFunctionContext call is followed
NoResolution ==
  [loaded |-> FALSE, peripherals |-> << >>, funcName |-> "", pinName |-> "",
   result |-> NoContext, done |-> FALSE]

\* no inferChipData call chain is followed
NoInference == [rawData |-> << >>, chipData |-> << >>, console |-> << >>, passes |-> 0]

Init ==
  /\ currentChip = NoChip
  /\ pinConfigurations = EmptyConfig
  /\ localStorage = << >>
  /\ modal = NoModal
  /\ loads = 0
  /\ calls = 0
  /\ last = NoCall
  /\ inference = NoInference
  /\ call = NoActivation
  /\ resolution = NoResolution
  /\ card = NoCard

pinNames(chip) == {Chips[chip].pins[i].name : i \in DOMAIN Chips[chip].pins}

PinInputs == (IF currentChip = NoChip THEN {} ELSE pinNames(currentChip)) \cup {UnknownPin}

FuncInputs(pinName) ==
  LET elements(functions) == {functions[i] : i \in DOMAIN functions}
  IN  elements(getPinFunctions(currentChip, pinName)) \cup ProbeFuncs \cup {""}

\* JSON.stringify of a string -> string record: the text lists every key
\* with its value
JSONstringify(config) == {<<k, config[k]>> : k \in DOMAIN config}

\* JSON.parse of such a text: the record with the listed keys and values
JSONparse(text) == [k \in {e[1] : e \in text} |-> (CHOOSE e \in text : e[1] = k)[2]]

\* loadChip without the reset of line 31: with nothing saved the table of the
\* previous chip stays
loadChip_NoReset(i) ==
  /\ loads < MaxLoads
  /\ loads' = loads + 1
  /\ currentChip' = i
  /\ pinConfigurations' = LET getItem(key) == IF key \in DOMAIN localStorage
                                               THEN JSONparse(localStorage[key])
                                               ELSE pinConfigurations
                          IN  getItem(storageKey(i))
  /\ UNCHANGED <<localStorage, modal, calls, inference, call, resolution, card>>
  /\ last' = [NoCall EXCEPT !.op = "loadChip", !.before = snapshot]

loadChip(i) ==
  /\ loads < MaxLoads
  /\ loads' = loads + 1
  /\ currentChip' = i
  /\ pinConfigurations' = LET getItem(key) == IF key \in DOMAIN localStorage
                                               THEN JSONparse(localStorage[key])
                                               ELSE EmptyConfig
                          IN  getItem(storageKey(i))
  /\ UNCHANGED <<localStorage, modal, calls, inference, call, resolution, card>>
  /\ last' = [NoCall EXCEPT !.op = "loadChip", !.before = snapshot]

\* a commit that is not followed by localStorage.setItem
saveConfigurations_Skip(chip, config) == localStorage

\* saveConfigurations() with the table that was just committed
saveConfigurations(chip, config) ==
  IF chip = NoChip THEN localStorage
  ELSE LET setItem(key) ==
             [k \in (DOMAIN localStorage) \cup {key} |->
                IF k = key THEN JSONstringify(config) ELSE localStorage[k]]
       IN  setItem(storageKey(chip))

\* clearConfigurations without localStorage.removeItem (lines 43-46)
clearConfigurations_KeepSaved ==
  /\ pinConfigurations' = EmptyConfig
  /\ UNCHANGED <<currentChip, localStorage, modal, loads, calls, inference, call, resolution, card>>
  /\ last' = [NoCall EXCEPT !.op = "clearConfigurations", !.before = snapshot]

clearConfigurations ==
  /\ pinConfigurations' = EmptyConfig
  /\ localStorage' = IF currentChip = NoChip THEN localStorage
                     ELSE [k \in (DOMAIN localStorage) \ {storageKey(currentChip)} |-> localStorage[k]]
  /\ UNCHANGED <<currentChip, modal, loads, calls, inference, call, resolution, card>>
  /\ last' = [NoCall EXCEPT !.op = "clearConfigurations", !.before = snapshot]

setPinFunction(pinName, func) ==
  \E r \in {setPinFunctionResult(currentChip, pinConfigurations, pinName, func)} :
      /\ pinConfigurations' = r.config
      /\ localStorage' = IF r.outcome \in {"cleared", "assigned"}
                         THEN saveConfigurations(currentChip, r.config)
                         ELSE localStorage
      /\ modal' = IF r.outcome = "conflict"
                  THEN [visible |-> TRUE, periphName |-> r.context.periphName,
                        conflicts |-> r.conflicts]
                  ELSE modal
      /\ calls' = IF calls < MaxCalls THEN calls + 1 ELSE calls
      /\ UNCHANGED <<currentChip, loads, inference, call, resolution, card>>
      /\ last' = [op |-> "setPinFunction", pin |-> pinName, func |-> func,
                  outcome |-> r.outcome, conflicts |-> r.conflicts, context |-> r.context,
                  before |-> snapshot]

closeModal ==
  /\ modal' = [modal EXCEPT !.visible = FALSE]
  /\ UNCHANGED <<currentChip, pinConfigurations, localStorage, loads, calls, last, inference, call, resolution, card>>

Next ==
  \/ \E i \in DOMAIN RawChips : loadChip(i)
  \/ /\ calls < MaxCalls
     /\ \E pinName \in PinInputs : \E func \in FuncInputs(pinName) : setPinFunction(pinName, func)
  \/ clearConfigurations
  \/ closeModal

\* a session: the stores from construction on
Spec == Init /\ [][Next]_vars

\* the allocation engine on one loaded chip: the state right after the first
\* loadChip(i) with nothing saved, then any number of setPinFunction calls
InitEngine ==
  /\ currentChip \in DOMAIN RawChips
  /\ pinConfigurations = EmptyConfig
  /\ localStorage = << >>
  /\ modal = NoModal
  /\ loads = 1
  /\ calls = 0
  /\ last = [NoCall EXCEPT !.op = "loadChip"]
  /\ inference = NoInference
  /\ call = NoActivation
  /\ resolution = NoResolution
  /\ card = NoCard

NextEngine ==
  \E pinName \in PinInputs : \E func \in FuncInputs(pinName) : setPinFunction(pinName, func)

SpecEngine == InitEngine /\ [][NextEngine]_vars

\* ------------------------------------------------------------------------
\* setPinFunction statement by statement: the locals of the call are in
\* call, the refs of the store are written where the code writes them
\* ------------------------------------------------------------------------
storeFrame == UNCHANGED <<currentChip, loads, calls, last, inference, resolution, card>>

\* lines 86-91: the guard on currentChip, the copy of the table
enter(pinName, func) ==
  /\ call.pc \in {"idle", "returned"}
  /\ currentChip # NoChip
  /\ call' = [NoActivation EXCEPT !.pc = "copied", !.pinName = pinName, !.func = func,
                                  !.newConfig = pinConfigurations,
                                  !.prior = pinConfigurations, !.priorStorage = localStorage]
  /\ UNCHANGED <<pinConfigurations, localStorage, modal>>
  /\ storeFrame

\* lines 94-95: delete newConfig[pinName]
removeConfig ==
  /\ call.pc = "copied" /\ call.func = ""
  /\ call' = [call EXCEPT !.newConfig = DeleteKey(call.newConfig, call.pinName), !.pc = "commit"]
  /\ UNCHANGED <<pinConfigurations, localStorage, modal>>
  /\ storeFrame

\* lines 102-106: the function is not supported, return
rejectUnsupported ==
  /\ call.pc = "copied" /\ call.func # ""
  /\ ~isSupported(currentChip, call.pinName, call.func)
  /\ call' = [call EXCEPT !.pc = "returned"]
  /\ UNCHANGED <<pinConfigurations, localStorage, modal>>
  /\ storeFrame

\* line 109: const context = findFunctionContext(func, pinName)
resolveContext ==
  /\ call.pc = "copied" /\ call.func # ""
  /\ isSupported(currentChip, call.pinName, call.func)
  /\ \E context \in {contextOf(currentChip, call.func, call.pinName)} :
       call' = [call EXCEPT !.context = context,
                            !.pc = IF context = NoContext THEN "setRequested" ELSE "exclusivity"]
  /\ UNCHANGED <<pinConfigurations, localStorage, modal>>
  /\ storeFrame

\* the loop of lines 115-124 deleting from pinConfigurations.value itself
conflictResolution_InPlace ==
  /\ call.pc = "exclusivity"
  /\ call' = [call EXCEPT !.newConfig = clearSameSignal(currentChip, call.newConfig,
                                                         call.pinName, call.context),
                          !.pc = "linkage"]
  /\ pinConfigurations' = clearSameSignal(currentChip, call.newConfig, call.pinName, call.context)
  /\ UNCHANGED <<localStorage, modal>>
  /\ storeFrame

\* lines 115-124: the same signal is deleted from the other pins of newConfig
conflictResolution ==
  /\ call.pc = "exclusivity"
  /\ call' = [call EXCEPT !.newConfig = clearSameSignal(currentChip, call.newConfig,
                                                         call.pinName, call.context),
                          !.pc = "linkage"]
  /\ UNCHANGED <<pinConfigurations, localStorage, modal>>
  /\ storeFrame

\* lines 127-168: switchOperations and conflicts are collected
groupSwitching ==
  /\ call.pc = "linkage"
  /\ \E conflicts \in {conflictsOf(currentChip, call.newConfig, call.context)} :
       call' = [call EXCEPT !.switchOperations =
                              switchOperations(currentChip, call.newConfig, call.context),
                            !.conflicts = conflicts,
                            !.pc = IF Len(conflicts) > 0 THEN "abort" ELSE "apply"]
  /\ UNCHANGED <<pinConfigurations, localStorage, modal>>
  /\ storeFrame

\* lines 170-177: uiStore.showModal(...), return
abortOperation ==
  /\ call.pc = "abort"
  /\ modal' = [visible |-> TRUE, periphName |-> call.context.periphName,
               conflicts |-> call.conflicts]
  /\ call' = [call EXCEPT !.pc = "returned"]
  /\ UNCHANGED <<pinConfigurations, localStorage>>
  /\ storeFrame

\* lines 179-195: clear the old pins of the switched signals, then set the new
applySwitches ==
  /\ call.pc = "apply"
  /\ call' = [call EXCEPT !.newConfig =
                            setNewPins(clearOldPins(currentChip, call.newConfig,
                                                    call.switchOperations),
                                       call.switchOperations),
                          !.pc = "setRequested"]
  /\ UNCHANGED <<pinConfigurations, localStorage, modal>>
  /\ storeFrame

\* line 201: newConfig[pinName] = func
setRequestedPin ==
  /\ call.pc = "setRequested"
  /\ call' = [call EXCEPT !.newConfig = SetKey(call.newConfig, call.pinName, call.func),
                          !.pc = "commit"]
  /\ UNCHANGED <<pinConfigurations, localStorage, modal>>
  /\ storeFrame

\* lines 96 and 202: pinConfigurations.value = newConfig
commitConfig ==
  /\ call.pc = "commit"
  /\ pinConfigurations' = call.newConfig
  /\ call' = [call EXCEPT !.writes = call.writes + 1, !.pc = "save"]
  /\ UNCHANGED <<localStorage, modal>>
  /\ storeFrame

\* lines 97 and 205: saveConfigurations(), return
saveAndReturn ==
  /\ call.pc = "save"
  /\ localStorage' = saveConfigurations(currentChip, pinConfigurations)
  /\ call' = [call EXCEPT !.pc = "returned"]
  /\ UNCHANGED <<pinConfigurations, modal>>
  /\ storeFrame

NextSteps ==
  \/ \E pinName \in PinInputs : \E func \in FuncInputs(pinName) : enter(pinName, func)
  \/ removeConfig
  \/ rejectUnsupported
  \/ resolveContext
  \/ conflictResolution
  \/ groupSwitching
  \/ abortOperation
  \/ applySwitches
  \/ setRequestedPin
  \/ commitConfig
  \/ saveAndReturn

\* one chip loaded, then setPinFunction calls one statement at a time
SpecSteps == InitEngine /\ [][NextSteps]_vars

\* ------------------------------------------------------------------------
\* inferChipData on its own: a raw description, its compiled form, and the
\* compiled form fed back in
\* ------------------------------------------------------------------------
\* longest package pin list tried
MaxPackage == 2

PinNameInputs == {"VDD", "VSS", "NRST", "BOOT0", "PA2", "PA10", "PB3", "vdda", "boot1"}

PackageInputs == UNION {[1..n -> PinNameInputs] : n \in 0..MaxPackage}

\* peripherals objects in the nested category -> instance shape
PeripheralInputs ==
  { << >>,
    << Category("UART/USART", "uart",
                << Instance("USART1", << << Entry("TX", "PA2"), Entry("RX", "PA10") >>,
                                         << Entry("TX", "PB3"), Entry("RX", "PA2") >> >>) >>) >>,
    << Category("SYS", "system",
                << Instance("", << << Entry("SWDIO", "PA10"), Entry("SWCLK", "PA2") >> >>) >>),
       Category("DEBUG", "trace",
                << Instance("default", << << Entry("SWO", "PB3"), Entry("GPIO", "PA2") >> >>) >>) >>,
    << Category("ADC", "adc", << >>) >>,
    << Category("SYS", "system",
                << Instance("", << << Entry("NRST", "NRST") >> >>),
                   Instance("default", << << Entry("BOOT", "BOOT0"), Entry("NRST", "PA10") >> >>) >>) >>,
    << Category("GPTM", "timer",
                << Instance("TIM2", << >>),
                   Instance("TIM3", << << Entry("CH1", "PA10"), Entry("CH2", "PA10") >>,
                                       << Entry("CH1", "PA10") >> >>) >>) >> }

NestedInputs ==
  {[meta |-> [name |-> "RAW"], package |-> pkg, pins |-> << >>, peripherals |-> per] :
     pkg \in PackageInputs, per \in PeripheralInputs}

\* what inferChipData is called with: nested descriptions and normalized ones
RawInputs == NestedInputs \cup {RawSuffixed, RawSwap}

storesIdle ==
  /\ currentChip = NoChip
  /\ pinConfigurations = EmptyConfig
  /\ localStorage = << >>
  /\ modal = NoModal
  /\ loads = 0
  /\ calls = 0
  /\ last = NoCall

InitInfer ==
  /\ storesIdle
  /\ inference \in {[rawData |-> raw, chipData |-> << >>, console |-> << >>, passes |-> 0] : raw \in RawInputs}
  /\ call = NoActivation
  /\ resolution = NoResolution
  /\ card = NoCard

\* const data = inferChipData(rawData)
inferRaw ==
  /\ inference.passes = 0
  /\ inference' = [inference EXCEPT !.chipData = inferChipData(inference.rawData),
                                  !.console = @ \o inferConsole(inference.rawData),
                                  !.passes = 1]
  /\ UNCHANGED <<currentChip, pinConfigurations, localStorage, modal, loads, calls, last, call, resolution, card>>

\* inferChipData called with its own output
inferCompiled ==
  /\ inference.passes = 1
  /\ inference' = [inference EXCEPT !.chipData = inferChipData(inference.chipData),
                                  !.console = @ \o inferConsole(inference.chipData),
                                  !.passes = 2]
  /\ UNCHANGED <<currentChip, pinConfigurations, localStorage, modal, loads, calls, last, call, resolution, card>>

NextInfer == inferRaw \/ inferCompiled

SpecInfer == InitInfer /\ [][NextInfer]_vars

\* ------------------------------------------------------------------------
\* findFunctionContext on its own: one call on a peripheral index
\* ------------------------------------------------------------------------
\* nested description in which one function name matches several entries:
\* SWO and SWDIO are bare signals of SYS and of DEBUG, TIM1_CH1_1 is CH1_1 of scheme 0
\* and CH1 of scheme 1, TIM1_CH2 is CH2 in full and TIM1_CH2 in short
RawShared ==
  [meta |-> [name |-> "CH32SHARED"],
   package |-> <<"PA2", "PB3", "PA13">>,
   pins |-> << >>,
   peripherals |-> <<
     Category("SYS", "system",
              << Instance("", << << Entry("SWO", "PB3"), Entry("SWDIO", "PA13") >> >>) >>),
     Category("DEBUG", "trace",
              << Instance("default", << << Entry("SWO", "PA2"), Entry("SWDIO", "PA13") >> >>) >>),
     Category("TIM", "timer",
              << Instance("TIM1", << << Entry("CH1", "PA2"), Entry("CH1_1", "PA13"),
                                       Entry("TIM1_CH2", "PA13"), Entry("CH2", "PB3") >>,
                                    << Entry("CH1", "PB3") >> >>) >>) >>]

\* the peripheral indexes a call may scan
IndexInputs ==
  {Chips[c].peripherals : c \in DOMAIN RawChips} \cup {inferChipData(RawShared).peripherals}

\* the entries of the indexes, each with its names in full and in short form
IndexEntries ==
  UNION {UNION {UNION {{[periphName |-> ps[p].key, mapIndex |-> m - 1,
                         signalName |-> ps[p].pinmaps[m][k].sig, pin |-> ps[p].pinmaps[m][k].pin] :
                          k \in DOMAIN ps[p].pinmaps[m]} :
                       m \in DOMAIN ps[p].pinmaps} : p \in DOMAIN ps} : ps \in IndexInputs}

\* function names a call is made with: the names of the entries, the GPIO
\* sentinel and a name no index has
FuncNameInputs ==
  {e.periphName \o "_" \o e.signalName \o (IF e.mapIndex = 0 THEN "" ELSE "_" \o ToString(e.mapIndex)) :
     e \in IndexEntries}
    \cup {e.signalName \o (IF e.mapIndex = 0 THEN "" ELSE "_" \o ToString(e.mapIndex)) :
            e \in IndexEntries}
    \cup {"GPIO"} \cup ProbeFuncs

\* candidate pins: omitted, the pins of the entries, a pin no index has
CandidatePinInputs == {""} \cup {e.pin : e \in IndexEntries} \cup {UnknownPin}

InitResolve ==
  /\ storesIdle
  /\ inference = NoInference
  /\ call = NoActivation
  /\ card = NoCard
  /\ resolution \in
       {[loaded |-> TRUE, peripherals |-> ps, funcName |-> f, pinName |-> p,
         result |-> NoContext, done |-> FALSE] :
          ps \in IndexInputs, f \in FuncNameInputs, p \in CandidatePinInputs}
       \cup
       {[loaded |-> FALSE, peripherals |-> << >>, funcName |-> f, pinName |-> p,
         result |-> NoContext, done |-> FALSE] :
          f \in FuncNameInputs, p \in CandidatePinInputs}

\* findFunctionContext(funcName, pinName)
resolve ==
  /\ ~resolution.done
  /\ resolution' =
       [resolution EXCEPT
          !.result = IF resolution.loaded
                     THEN findInPeripherals(resolution.peripherals, resolution.funcName,
                                            resolution.pinName)
                     ELSE findFunctionContext(NoChip, resolution.funcName, resolution.pinName),
          !.done = TRUE]
  /\ UNCHANGED <<currentChip, pinConfigurations, localStorage, modal, loads, calls, last,
                 inference, call, card>>

NextResolve == resolve

SpecResolve == InitResolve /\ [][NextResolve]_vars

\* ------------------------------------------------------------------------
\* PeripheralCard.vue: one card of the loaded chip and its scheme selector
\* ------------------------------------------------------------------------
\* the JavaScript value undefined (no entry, no target function)
Undefined == "<undefined>"

getPinConfiguration(config, pinName) ==
  IF HasKey(config, pinName) THEN config[pinName] ELSE Undefined

\* props.name and props.definition.pinmaps of the card
cardName(chip, periph) == Chips[chip].peripherals[periph].key

cardPinmaps(chip, periph) == Chips[chip].peripherals[periph].pinmaps

\* the signal name first, then Peripheral_Signal, each with the suffix
getTargetFunction(chip, periph, pinName, signal, mapIndex) ==
  LET pick(functions) ==
        IF Includes(functions, shortName(signal, mapIndex))
        THEN shortName(signal, mapIndex)
        ELSE IF Includes(functions, fullName(cardName(chip, periph), signal, mapIndex))
        THEN fullName(cardName(chip, periph), signal, mapIndex)
        ELSE Undefined
  IN  pick(getPinFunctions(chip, pinName))

\* a card that takes no pin for selected
isPinSelected_Never(chip, config, periph, pinName, signal, mapIndex) == FALSE

\* currentFunc === targetFunc
isPinSelected(chip, config, periph, pinName, signal, mapIndex) ==
  getPinConfiguration(config, pinName) = getTargetFunction(chip, periph, pinName, signal, mapIndex)

\* matches of one pinmap in detectInitialMap
matchesOf(chip, config, periph, m) ==
  Cardinality({k \in DOMAIN cardPinmaps(chip, periph)[m] :
                 isPinSelected(chip, config, periph, cardPinmaps(chip, periph)[m][k].pin,
                               cardPinmaps(chip, periph)[m][k].sig, m - 1)})

\* detectInitialMap: the first pinmap with the most matches; index 0 for a
\* card with at most one pinmap
detectInitialMap(chip, config, periph) ==
  IF Len(cardPinmaps(chip, periph)) <= 1 THEN 0
  ELSE (CHOOSE m \in DOMAIN cardPinmaps(chip, periph) :
          /\ \A n \in DOMAIN cardPinmaps(chip, periph) :
               matchesOf(chip, config, periph, n) <= matchesOf(chip, config, periph, m)
          /\ \A n \in 1..(m - 1) :
               matchesOf(chip, config, periph, n) < matchesOf(chip, config, periph, m)) - 1

\* the loop of the watcher over the entries of the old map: the table it
\* leaves and the number of setPinFunction(pin, '') calls it made
RECURSIVE watchLoop(_, _, _, _, _, _)
watchLoop(chip, config, periph, oldVal, entries, made) ==
  IF entries = << >> THEN [config |-> config, made |-> made]
  ELSE IF isPinSelected(chip, config, periph, Head(entries).pin, Head(entries).sig, oldVal)
       THEN watchLoop(chip, setPinFunctionResult(chip, config, Head(entries).pin, "").config,
                      periph, oldVal, Tail(entries), made + 1)
       ELSE watchLoop(chip, config, periph, oldVal, Tail(entries), made)

\* the state after loadChip with nothing saved; no card is mounted yet
InitCard ==
  /\ currentChip \in DOMAIN RawChips
  /\ pinConfigurations = EmptyConfig
  /\ localStorage = << >>
  /\ modal = NoModal
  /\ loads = 1
  /\ calls = 0
  /\ last = [NoCall EXCEPT !.op = "loadChip"]
  /\ inference = NoInference
  /\ call = NoActivation
  /\ resolution = NoResolution
  /\ card = NoCard

cardFrame ==
  UNCHANGED <<currentChip, pinConfigurations, localStorage, modal, loads, calls, last,
              inference, call, resolution>>

\* setup of the card of one peripheral: the watcher is registered, then
\* detectInitialMap assigns selectedMapIndex, which queues the watcher when
\* the value is no longer 0
mountCard(periph) ==
  /\ card.periph = 0
  /\ \E best \in {detectInitialMap(currentChip, pinConfigurations, periph)} :
       card' = [card EXCEPT !.periph = periph, !.selectedMapIndex = best,
                            !.pending = (best # 0), !.oldVal = 0]
  /\ cardFrame

\* the radio button of another scheme (v-model="selectedMapIndex")
selectScheme(index) ==
  /\ card.periph # 0 /\ ~card.pending
  /\ Len(cardPinmaps(currentChip, card.periph)) > 1
  /\ index \in 0..(Len(cardPinmaps(currentChip, card.periph)) - 1)
  /\ index # card.selectedMapIndex
  /\ card' = [card EXCEPT !.selectedMapIndex = index, !.pending = TRUE,
                          !.oldVal = card.selectedMapIndex]
  /\ cardFrame

\* watch(selectedMapIndex, (newVal, oldVal) => ...), lines 20-39
watchSelectedMapIndex ==
  /\ card.pending
  /\ \E r \in {IF Len(cardPinmaps(currentChip, card.periph)) <= card.oldVal
               THEN [config |-> pinConfigurations, made |-> 0]
               ELSE watchLoop(currentChip, pinConfigurations, card.periph, card.oldVal,
                              cardPinmaps(currentChip, card.periph)[card.oldVal + 1], 0)} :
       /\ pinConfigurations' = r.config
       /\ localStorage' = IF r.made > 0 THEN saveConfigurations(currentChip, r.config)
                          ELSE localStorage
       /\ card' = [card EXCEPT !.pending = FALSE, !.ran = TRUE, !.before = pinConfigurations]
  /\ UNCHANGED <<currentChip, modal, loads, calls, last, inference, call, resolution>>

\* a pin function chosen in the editor while no watcher is queued
userCall ==
  /\ ~card.pending
  /\ calls < MaxCalls
  /\ \E pinName \in PinInputs : \E func \in FuncInputs(pinName) : setPinFunction(pinName, func)

NextCard ==
  \/ \E periph \in DOMAIN Chips[currentChip].peripherals : mountCard(periph)
  \/ \E index \in 0..1 : selectScheme(index)
  \/ watchSelectedMapIndex
  \/ userCall

SpecCard == InitCard /\ [][NextCard]_vars

\* ------------------------------------------------------------------------
\* Properties
\* ------------------------------------------------------------------------
lastWasSetPin == last.op = "setPinFunction"

tableBefore == last.before.pinConfigurations

\* the (peripheral, signal) pair a function resolves to without a candidate pin
resolvesTo(chip, func, periphName, sig) == holdsSignal(chip, func, periphName, sig)

sameSignal(chip, f, g) ==
  LET same(cf, cg) ==
        cf # NoContext /\ cg # NoContext
          /\ cf.periphName = cg.periphName /\ cf.signalName = cg.signalName
  IN  same(contextOf(chip, f, ""), contextOf(chip, g, ""))

\* C1: on a loaded chip, starting from the empty table, after any sequence of
\* setPinFunction calls no two distinct pins hold functions that resolve to
\* the same (peripheral, signal) pair, and no two pins hold the same
\* non-GPIO function identifier.
C1_Exclusivity ==
  \A p, q \in DOMAIN pinConfigurations :
    p # q =>
      /\ ~sameSignal(currentChip, pinConfigurations[p], pinConfigurations[q])
      /\ (pinConfigurations[p] = pinConfigurations[q] => pinConfigurations[p] = "GPIO")

\* the table the linkage pass works on: the table before the call without the
\* other pins that held the requested (peripheral, signal)
workingTable ==
  [q \in {q \in DOMAIN tableBefore :
            q = last.pin \/ ~resolvesTo(currentChip, tableBefore[q],
                                        last.context.periphName, last.context.signalName)}
     |-> tableBefore[q]]

recordedConflict == lastWasSetPin /\ Len(last.conflicts) > 0

\* C2: whenever a setPinFunction call records a linkage conflict, the table
\* (and its saved copy) after the call equals the table before the call.
C2_Transactional ==
  recordedConflict =>
    /\ pinConfigurations = tableBefore
    /\ localStorage = last.before.localStorage

\* a conflict was recorded in a call whose exclusivity pass had displaced a pin
C2_Witness ==
  /\ recordedConflict
  /\ workingTable # tableBefore
  /\ pinConfigurations = tableBefore

\* every entry of a table belongs to the capability of its pin on the chip
contained(chip, config) ==
  \A p \in DOMAIN config : Includes(getPinFunctions(chip, p), config[p])

\* C3: in every table reachable by loadChip, setPinFunction and
\* clearConfigurations, each entry pin -> function has the function among
\* the functions of that pin on the chip that is loaded.
C3_CapabilityContainment ==
  currentChip # NoChip => contained(currentChip, pinConfigurations)

\* the capability of the pin on the chip has fixed = true
fixedPin(chip, pinName) ==
  chip # NoChip /\ \E i \in DOMAIN Chips[chip].pins :
                     Chips[chip].pins[i].name = pinName /\ Chips[chip].pins[i].fixed

\* C4: a setPinFunction call on a fixed pin (power, gnd, reset, boot) leaves
\* the table as it was, whatever the function argument, and no fixed pin is
\* ever a key of the table.
C4_FixedPinImmutable ==
  /\ (lastWasSetPin /\ fixedPin(currentChip, last.pin)) => pinConfigurations = tableBefore
  /\ \A p \in DOMAIN pinConfigurations : ~fixedPin(currentChip, p)

\* ---- calls that resolved a context (chipStore.ts lines 108-206) ----
resolvedCall == lastWasSetPin /\ last.context # NoContext

assignedWithContext == resolvedCall /\ last.outcome = "assigned"

\* the scheme the call resolved to, as its signal -> pin entries
targetPinmap ==
  Chips[currentChip].peripherals[last.context.periph].pinmaps[last.context.mapIndex + 1]

\* the entries of the scheme for the signals other than the requested one
siblings == {k \in DOMAIN targetPinmap : targetPinmap[k].sig # last.context.signalName}

\* the function the sibling takes on its pin of the resolved scheme
identifier(e) == targetFuncOf(currentChip, last.context, e)

heldBefore(sig) == holders(currentChip, tableBefore, last.context.periphName, sig)

holdsAfter(q, sig) ==
  /\ HasKey(pinConfigurations, q)
  /\ holdsSignal(currentChip, pinConfigurations[q], last.context.periphName, sig)

requestedIsSet ==
  HasKey(pinConfigurations, last.pin) /\ pinConfigurations[last.pin] = last.func

C5_Instance ==
  (/\ currentChip = 1 /\ lastWasSetPin
   /\ last.pin = "PB6" /\ last.func = "USART1_TX_1"
   /\ tableBefore = [PA9 |-> "USART1_TX", PA10 |-> "USART1_RX"])
    => pinConfigurations = [PB6 |-> "USART1_TX_1", PB7 |-> "USART1_RX_1"]

activeSibling(e) ==
  holders(currentChip, workingTable, last.context.periphName, e.sig) # {}

\* the sibling's pin of the resolved scheme holds another function
occupiedByOther(e) ==
  /\ HasKey(workingTable, e.pin)
  /\ workingTable[e.pin] # ""
  /\ workingTable[e.pin] # identifier(e)

conflictRecordedFor(e) ==
  /\ HasKey(workingTable, e.pin)
  /\ Includes(last.conflicts, conflictText(e.sig, e.pin, workingTable[e.pin]))

C6_Instance ==
  (/\ currentChip = 1 /\ lastWasSetPin
   /\ last.pin = "PB6" /\ last.func = "USART1_TX_1"
   /\ tableBefore = [PA9 |-> "USART1_TX", PA10 |-> "USART1_RX", PB7 |-> "SPI1_MISO"])
    => /\ last.outcome = "conflict"
       /\ last.conflicts = <<"RX -> PB7 (Occupied by SPI1_MISO)">>
       /\ pinConfigurations = tableBefore

\* C6: in a setPinFunction call that resolves to (P, S, scheme i), a conflict
\* is recorded for a sibling signal sig routed to tp exactly when sig is held
\* by some pin of the working table and tp holds a function other than the
\* one of sig under scheme i; the entry names sig, tp and the occupying
\* function; a call with a conflict aborts and shows the conflicts.  With
\* USART1 on PA9/PA10 and PB7 holding SPI1_MISO, setPinFunction(PB6,
\* USART1_TX_1) aborts with the conflict (RX, PB7, SPI1_MISO).
C6_ConflictDetection ==
  /\ resolvedCall =>
       /\ \A k \in siblings :
            conflictRecordedFor(targetPinmap[k])
              <=> (activeSibling(targetPinmap[k]) /\ occupiedByOther(targetPinmap[k]))
       /\ Len(last.conflicts) =
            Cardinality({k \in siblings : conflictRecordedFor(targetPinmap[k])})
       /\ (Len(last.conflicts) > 0) <=> (last.outcome = "conflict")
       /\ last.outcome = "conflict" =>
            /\ pinConfigurations = tableBefore
            /\ modal = [visible |-> TRUE, periphName |-> last.context.periphName,
                        conflicts |-> last.conflicts]
  /\ C6_Instance

\* the remap of USART1 was refused because PB7 is taken by SPI1
C6_Witness ==
  /\ currentChip = 1 /\ resolvedCall
  /\ last.pin = "PB6" /\ last.func = "USART1_TX_1"
  /\ tableBefore = [PA9 |-> "USART1_TX", PA10 |-> "USART1_RX", PB7 |-> "SPI1_MISO"]
  /\ last.conflicts = <<"RX -> PB7 (Occupied by SPI1_MISO)">>

\* a non-empty function that the pin does not offer on the loaded chip
unsupportedRequest ==
  /\ lastWasSetPin /\ currentChip # NoChip /\ last.func # ""
  /\ ~Includes(getPinFunctions(currentChip, last.pin), last.func)

\* C7: a setPinFunction call with a non-empty function that is not among the
\* functions of the pin (a pin unknown to the chip included) changes neither
\* the table nor the saved tables and raises no modal.
C7_UnsupportedRejected ==
  unsupportedRequest =>
    /\ pinConfigurations = tableBefore
    /\ localStorage = last.before.localStorage
    /\ modal = last.before.modal
    /\ last.conflicts = << >>

\* an unsupported request, for a pin the chip does not have, on a table that
\* has entries
C7_Witness ==
  /\ unsupportedRequest
  /\ tableBefore # EmptyConfig
  /\ last.pin = UnknownPin

\* a call with the empty function on a loaded chip
clearRequest == lastWasSetPin /\ currentChip # NoChip /\ last.func = ""

\* C8: setPinFunction(pin, "") commits a table without an entry for pin in
\* which every other entry is what it was before the call; it saves that
\* table, records no conflict and raises no modal.
C8_Clear ==
  clearRequest =>
    /\ DOMAIN pinConfigurations = (DOMAIN tableBefore) \ {last.pin}
    /\ \A q \in DOMAIN pinConfigurations : pinConfigurations[q] = tableBefore[q]
    /\ storageKey(currentChip) \in DOMAIN localStorage
    /\ JSONparse(localStorage[storageKey(currentChip)]) = pinConfigurations
    /\ last.conflicts = << >>
    /\ modal = last.before.modal

\* one signal of an assigned USART1 pair was cleared and the other stayed
C8_Witness ==
  /\ clearRequest
  /\ HasKey(tableBefore, last.pin)
  /\ contextOf(currentChip, tableBefore[last.pin], last.pin) # NoContext
  /\ \E q \in DOMAIN pinConfigurations :
       contextOf(currentChip, pinConfigurations[q], q) # NoContext

\* the other pins that held the requested (peripheral, signal) before the call
displaced == heldBefore(last.context.signalName) \ {last.pin}

\* the statement of C9 read word for word: a displaced pin has no entry
C9_LastWriterWins_Literal ==
  assignedWithContext =>
    /\ requestedIsSet
    /\ \A q \in displaced : ~HasKey(pinConfigurations, q)
    /\ last.conflicts = << >>

\* C9: when setPinFunction(pin, F) resolves to (P, S) and records no
\* conflict, the table has pin -> F and no other pin that held a function
\* resolving to (P, S) still holds one: such a pin has no entry, unless the
\* resolved scheme routes a migrated sibling signal to it, in which case it
\* holds that sibling's function.  The displacement is not reported: no
\* conflict is recorded and the modal is left as it was.
C9_LastWriterWins ==
  assignedWithContext =>
    /\ requestedIsSet
    /\ \A q \in displaced :
         /\ ~holdsAfter(q, last.context.signalName)
         /\ HasKey(pinConfigurations, q) =>
              \E k \in siblings :
                /\ targetPinmap[k].pin = q
                /\ heldBefore(targetPinmap[k].sig) # {}
                /\ pinConfigurations[q] = identifier(targetPinmap[k])
    /\ last.conflicts = << >>
    /\ modal = last.before.modal

\* a pin lost the requested signal in the call and received the migrated
\* sibling (the TX/RX swap of CH32V003 USART1)
C9_Witness ==
  /\ assignedWithContext
  /\ \E q \in displaced : HasKey(pinConfigurations, q)

\* a supported function for which the lookup with the pin finds no context
contextFreeRequest ==
  /\ lastWasSetPin /\ last.func # ""
  /\ Includes(getPinFunctions(currentChip, last.pin), last.func)
  /\ findFunctionContext(currentChip, last.func, last.pin) = NoContext

\* C10: when setPinFunction(pin, F) has F among the functions of pin and
\* findFunctionContext(F, pin) finds nothing, the table after the call is the
\* table before it with only the entry of pin replaced by F.
C10_ContextFreeAssign ==
  contextFreeRequest =>
    /\ DOMAIN pinConfigurations = (DOMAIN tableBefore) \cup {last.pin}
    /\ pinConfigurations[last.pin] = last.func
    /\ \A q \in (DOMAIN tableBefore) \ {last.pin} : pinConfigurations[q] = tableBefore[q]

\* GPIO replaced a peripheral function while the sibling signal stayed assigned
C10_Witness ==
  /\ contextFreeRequest
  /\ last.func = "GPIO"
  /\ HasKey(tableBefore, last.pin)
  /\ contextOf(currentChip, tableBefore[last.pin], last.pin) # NoContext
  /\ \E q \in (DOMAIN tableBefore) \ {last.pin} :
       contextOf(currentChip, tableBefore[q], q) # NoContext

\* ---- usageStats (chipStore.ts lines 238-263) ----
packageOf(chip) == Chips[chip].package

fixedInPackage(chip) == {i \in DOMAIN packageOf(chip) : fixedPin(chip, packageOf(chip)[i])}

assignedInPackage(chip, config) ==
  {i \in DOMAIN packageOf(chip) :
     /\ ~fixedPin(chip, packageOf(chip)[i])
     /\ HasKey(config, packageOf(chip)[i]) /\ config[packageOf(chip)[i]] # ""}

\* a package of 48 pins, 6 of them fixed, with 10 GPIO pins assigned
ScenarioEPackage ==
  <<"VDD", "VSS", "VDDA", "VSSA", "NRST", "BOOT0">>
    \o [i \in 1..16 |-> "PA" \o ToString(i - 1)]
    \o [i \in 1..16 |-> "PB" \o ToString(i - 1)]
    \o [i \in 1..10 |-> "PC" \o ToString(i - 1)]

ScenarioEPins ==
  [i \in DOMAIN ScenarioEPackage |->
     Cap(ScenarioEPackage[i], getPinType(ScenarioEPackage[i]), <<"GPIO">>)]

ScenarioEConfig == [p \in {"PA" \o ToString(i) : i \in 0..9} |-> "GPIO"]

C11_ScenarioE ==
  usageStatsOf(ScenarioEPackage, ScenarioEPins, ScenarioEConfig) = [occupied |-> 16, total |-> 48]

\* C11: with a chip loaded, usageStats.total is the length of the package pin
\* list and usageStats.occupied is the number of package pins that are fixed
\* plus the number of package pins that are not fixed and have a non-empty
\* entry in the table; 48 pins with 6 fixed and 10 assigned give 16 of 48.
C11_UsageStats ==
  /\ currentChip # NoChip =>
       /\ usageStats(currentChip, pinConfigurations).total = Len(packageOf(currentChip))
       /\ usageStats(currentChip, pinConfigurations).occupied =
            Cardinality(fixedInPackage(currentChip))
              + Cardinality(assignedInPackage(currentChip, pinConfigurations))
  /\ C11_ScenarioE

\* a chip with a fixed package pin that also has an entry (counted once), an
\* assigned package pin and a free package pin
C11_Witness ==
  /\ currentChip # NoChip
  /\ fixedInPackage(currentChip) # {}
  /\ assignedInPackage(currentChip, pinConfigurations) # {}
  /\ usageStats(currentChip, pinConfigurations).occupied
       < usageStats(currentChip, pinConfigurations).total
  /\ \E p \in DOMAIN pinConfigurations : fixedPin(currentChip, p)

\* ---- inferChipData (chipInferencer.ts lines 15-206) ----
isNested(raw) == ~isOldFormat(raw)

\* C12: inferChipData applied to its own output returns that output, for
\* every nested description; a description already in normalized shape is
\* returned as it is.
C12_IdempotentInference ==
  /\ inference.passes >= 1 => inference.chipData = inferChipData(inference.rawData)
  /\ (inference.passes >= 1 /\ isOldFormat(inference.rawData)) =>
       inference.chipData = inference.rawData

\* a nested description with peripherals went through inferChipData twice
C12_Witness ==
  /\ inference.passes = 2
  /\ isNested(inference.rawData)
  /\ Len(inference.rawData.peripherals) > 0
  /\ inference.chipData # inference.rawData

\* ---- persistence (chipStore.ts lines 20-47, 96-97, 202-205) ----
\* the table saved for the loaded chip, when there is one
hasSaved == currentChip # NoChip /\ storageKey(currentChip) \in DOMAIN localStorage

savedTable == JSONparse(localStorage[storageKey(currentChip)])

committedCall == lastWasSetPin /\ last.outcome \in {"cleared", "assigned"}

refusedCall == lastWasSetPin /\ last.outcome \in {"noChip", "unsupported", "conflict"}

\* C13: after a setPinFunction call that commits (assign or clear) the table
\* saved under the loaded chip's key equals pinConfigurations; a refused or
\* aborted call writes nothing; so whenever a saved table exists for the
\* loaded chip it equals pinConfigurations.
C13_PersistenceFollowsCommits ==
  /\ committedCall => (hasSaved /\ savedTable = pinConfigurations)
  /\ refusedCall => localStorage = last.before.localStorage
  /\ hasSaved => savedTable = pinConfigurations

\* a refused call and a committed call, each on a chip with a saved table
\* that has entries
C13_WitnessRefused ==
  /\ refusedCall /\ hasSaved /\ savedTable # EmptyConfig
  /\ last.before.localStorage # << >>

C13_Witness ==
  /\ committedCall /\ hasSaved
  /\ Cardinality(DOMAIN savedTable) >= 2
  /\ last.before.localStorage # << >>
  /\ savedTable # JSONparse(last.before.localStorage[storageKey(currentChip)])

\* ---- loadChip (chipStore.ts lines 16-33) ----
lastWasLoad == last.op = "loadChip" /\ currentChip # NoChip

\* a table was saved under the key of the chip when loadChip was called
seededLoad == lastWasLoad /\ storageKey(currentChip) \in DOMAIN last.before.localStorage

seed == JSONparse(last.before.localStorage[storageKey(currentChip)])

\* the saved entries that the loaded chip supports
validEntries(chip, config) ==
  {p \in DOMAIN config : Includes(getPinFunctions(chip, p), config[p])}

\* C14: when loadChip seeds the table from a saved one, the table after the
\* load holds exactly the saved entries whose pin is a pin of the loaded chip
\* and whose function is among that pin's functions.
C14_ValidatedRestore ==
  seededLoad =>
    /\ DOMAIN pinConfigurations = validEntries(currentChip, seed)
    /\ \A p \in DOMAIN pinConfigurations : pinConfigurations[p] = seed[p]

\* a step of one of the operations that write pinConfigurations
tableWriter ==
  \/ \E i \in DOMAIN RawChips : loadChip(i)
  \/ \E pinName \in PinInputs : \E func \in FuncInputs(pinName) : setPinFunction(pinName, func)
  \/ clearConfigurations

\* C15: a loadChip for which nothing is saved leaves the table empty,
\* whatever the table of the previous chip was, and the table changes only in
\* steps of loadChip, setPinFunction or clearConfigurations.
C15_Lifecycle ==
  /\ []((lastWasLoad /\ ~seededLoad) => pinConfigurations = EmptyConfig)
  /\ [][pinConfigurations' # pinConfigurations => tableWriter]_vars

\* a chip without a saved table was loaded over a table that had entries
C15_Witness ==
  /\ lastWasLoad /\ ~seededLoad
  /\ last.before.pinConfigurations # EmptyConfig
  /\ pinConfigurations = EmptyConfig

\* ---- setPinFunction statement by statement ----
callEntered == call.pc # "idle"

\* what the whole call leaves in pinConfigurations
finalTable == setPinFunctionResult(currentChip, call.prior, call.pinName, call.func).config

\* what the whole call leaves in localStorage: a commit saves the final table
finalStorage ==
  IF setPinFunctionResult(currentChip, call.prior, call.pinName, call.func).outcome
       \in {"cleared", "assigned"}
  THEN [k \in (DOMAIN call.priorStorage) \cup {storageKey(currentChip)} |->
          IF k = storageKey(currentChip) THEN JSONstringify(finalTable) ELSE call.priorStorage[k]]
  ELSE call.priorStorage

\* C16: within one setPinFunction call pinConfigurations is written at most
\* once, after every update of the working copy, and localStorage after it;
\* at every statement of the call pinConfigurations is the table before the
\* call or the table the call ends with, and so is the saved copy.
C16_NoIntermediateState ==
  callEntered =>
    /\ call.writes <= 1
    /\ call.writes = 0 => (pinConfigurations = call.prior /\ localStorage = call.priorStorage)
    /\ call.writes = 1 => (pinConfigurations = finalTable /\ call.pc \in {"save", "returned"})
    /\ localStorage \in {call.priorStorage, finalStorage}
    /\ call.pc = "returned" => (pinConfigurations = finalTable /\ localStorage = finalStorage)

\* the working copy already differs from the table and from what the call
\* ends with, and the table is still the one before the call
C16_Witness ==
  /\ call.pc = "apply"
  /\ call.newConfig # call.prior
  /\ call.newConfig # finalTable
  /\ Len(call.switchOperations) > 0
  /\ pinConfigurations = call.prior

\* ---- the compiled pin table (chipInferencer.ts lines 96-123, 160-198) ----
compiledOnce == inference.passes = 1 /\ isNested(inference.rawData)

rawTuples == MappingTuples(inference.rawData.peripherals)

compiledPins == inference.chipData.pins

compiledNames == {compiledPins[i].name : i \in DOMAIN compiledPins}

\* the functions of a pin in the compiled table, as a set
compiledFunctions(pinName) ==
  UNION {{compiledPins[i].functions[j] : j \in DOMAIN compiledPins[i].functions} :
           i \in {i \in DOMAIN compiledPins : compiledPins[i].name = pinName}}

\* the identifier of (instance, signal, scheme): the instance prefix unless
\* the instance key is "" or "default", the suffix _i for scheme i >= 1
canonicalName(subKey, signalName, mapIndex) ==
  (IF subKey = "" \/ subKey = "default" THEN signalName ELSE subKey \o "_" \o signalName)
    \o (IF mapIndex = 0 THEN "" ELSE "_" \o ToString(mapIndex))

\* C17: for every (instance, scheme i, signal, pin) of a nested description
\* the compiled functions of the pin contain the identifier with suffix _i
\* for i >= 1 and without suffix for i = 0; every function of a gpio pin
\* other than GPIO is the identifier of such a tuple, and
\* findFunctionContext(f, pin) resolves it on the compiled peripherals.
C17_CompilerNaming ==
  compiledOnce =>
    /\ \A k \in DOMAIN rawTuples :
         canonicalName(rawTuples[k].subKey, rawTuples[k].signalName, rawTuples[k].mapIndex)
           \in compiledFunctions(rawTuples[k].pinName)
    /\ \A i \in DOMAIN compiledPins :
         compiledPins[i].type = "gpio" =>
           \A f \in compiledFunctions(compiledPins[i].name) \ {"GPIO"} :
             /\ \E k \in DOMAIN rawTuples :
                  /\ rawTuples[k].pinName = compiledPins[i].name
                  /\ f = canonicalName(rawTuples[k].subKey, rawTuples[k].signalName,
                                       rawTuples[k].mapIndex)
             /\ findInPeripherals(inference.chipData.peripherals, f, compiledPins[i].name)
                  # NoContext

\* the prefix rule applied to the name as it is written
typeByRule(name) ==
  CASE StartsWith(name, "VDD") \/ name = "VBAT" -> "power"
    [] StartsWith(name, "VSS") \/ name = "GND" -> "gnd"
    [] name = "NRST" -> "reset"
    [] StartsWith(name, "BOOT") -> "boot"
    [] OTHER -> "gpio"

\* the statement of C18 read word for word: the rule applied without regard
\* to case
C18_PinTypeRule_Literal ==
  compiledOnce =>
    \A i \in DOMAIN compiledPins :
      /\ compiledPins[i].type = typeByRule(toUpperCase(compiledPins[i].name))
      /\ compiledPins[i].fixed <=> (compiledPins[i].type # "gpio")

\* C18: every pin of the compiled table has type power if its name starts
\* with VDD or is VBAT, gnd if it starts with VSS or is GND, reset if it is
\* NRST, boot if it starts with BOOT, else gpio, the name compared as it is
\* written (upper-case prefixes only), and fixed is true exactly when the
\* type is not gpio.
C18_PinTypeRule ==
  compiledOnce =>
    \A i \in DOMAIN compiledPins :
      /\ compiledPins[i].type = typeByRule(compiledPins[i].name)
      /\ compiledPins[i].fixed <=> (compiledPins[i].type # "gpio")

\* a table with a pin of each type and a lower-case supply name typed gpio
C18_Witness ==
  /\ compiledOnce
  /\ \E i \in DOMAIN compiledPins : compiledPins[i].name = "vdda" /\ compiledPins[i].type = "gpio"
  /\ \E i \in DOMAIN compiledPins : compiledPins[i].type = "boot" /\ compiledPins[i].fixed
  /\ \E i \in DOMAIN compiledPins : compiledPins[i].type = "gpio" /\ compiledPins[i].name = "PA10"

\* the pin names of a nested description: package list and mapped pins
packageNames == {inference.rawData.package[i] : i \in DOMAIN inference.rawData.package}

mappedNames == {rawTuples[i].pinName : i \in DOMAIN rawTuples}

\* the default function of a pin that no mapping names
defaultFunction(pinName) ==
  CASE getPinType(pinName) = "gpio" -> "GPIO"
    [] getPinType(pinName) = "gnd" -> "GND"
    [] getPinType(pinName) = "reset" -> "NRST"
    [] OTHER -> pinName

\* one entry per name of package and mappings
C19_Universe ==
  compiledOnce =>
    /\ compiledNames = packageNames \cup mappedNames
    /\ \A i, j \in DOMAIN compiledPins : compiledPins[i].name = compiledPins[j].name => i = j

\* a package pin without mapping has its default function only
C19_DefaultOnly ==
  compiledOnce =>
    \A i \in DOMAIN compiledPins :
      compiledPins[i].name \in packageNames \ mappedNames
        => compiledPins[i].functions = <<defaultFunction(compiledPins[i].name)>>

\* a mapped pin absent from the package is emitted with its function
C19_StillEmitted ==
  compiledOnce =>
    \A t \in DOMAIN rawTuples :
      rawTuples[t].pinName \notin packageNames
        => /\ rawTuples[t].pinName \in compiledNames
           /\ inferredFuncName(rawTuples[t].subKey, rawTuples[t].signalName)
                \in compiledFunctions(rawTuples[t].pinName)

\* a warning is written for a mapped pin absent from the package
C19_Warned ==
  compiledOnce =>
    (mappedNames \ packageNames # {} => Len(inference.console) > 0)

\* C19: the compiled pin table has exactly one entry for each name in the
\* union of the package list and the mapped pins; a package pin that no
\* mapping names has only its default function; a mapping that names a pin
\* absent from the package is reported as a warning while the pin and its
\* function are still emitted.
C19_PinUniverse ==
  /\ C19_Universe
  /\ C19_DefaultOnly
  /\ C19_StillEmitted
  /\ C19_Warned

\* the names of a pin table in table order
tableOrder(pins) == [i \in DOMAIN pins |-> pins[i].name]

\* natural alphanumeric order: letter runs in alphabetical order without
\* regard to case, then the digit runs as numbers
naturalOrder(a, b) ==
  \/ NameKey(a).run < NameKey(b).run
  \/ NameKey(a).run = NameKey(b).run /\ NameKey(a).num <= NameKey(b).num

\* the package list in another order
Reordered(package) ==
  {[i \in DOMAIN package |-> package[p[i]]] :
     p \in {q \in [DOMAIN package -> DOMAIN package] : \A i, j \in DOMAIN package : q[i] = q[j] => i = j}}

\* the pin names a nested description declares with the given package and mappings
declaredNames(package, peripherals) ==
  LET pinsOf(tuples) == {tuples[i].pinName : i \in DOMAIN tuples}
  IN  {package[i] : i \in DOMAIN package} \cup pinsOf(MappingTuples(peripherals))

compiledAtLeastOnce == inference.passes >= 1 /\ isNested(inference.rawData)

schemesHeld(chip, config, periphName) ==
  LET schemeIn(c) == IF c # NoContext /\ c.periphName = periphName THEN {c.mapIndex} ELSE {}
  IN  UNION {schemeIn(contextOf(chip, config[q], "")) : q \in DOMAIN config}

peripheralNames(chip) ==
  {Chips[chip].peripherals[i].key : i \in DOMAIN Chips[chip].peripherals}

activePairs(chip, config) ==
  LET pairOf(c) == IF c = NoContext THEN {} ELSE {<<c.periphName, c.signalName>>}
  IN  UNION {pairOf(contextOf(chip, config[q], "")) : q \in DOMAIN config}

requestedPair == <<last.context.periphName, last.context.signalName>>

\* C22: a setPinFunction call that resolved to (P, S, i) and committed
\* activates no sibling signal that no pin held before the call: the pairs
\* active after the call are among the pairs active before it and (P, S).
C22_OnlyActiveMove ==
  assignedWithContext =>
    activePairs(currentChip, pinConfigurations)
      \subseteq (activePairs(currentChip, tableBefore) \cup {requestedPair})

\* a committed call on a table where a sibling of the requested signal was
\* not held: the sibling stays inactive although the scheme routes it
C22_Witness ==
  /\ assignedWithContext
  /\ \E k \in siblings :
       /\ heldBefore(targetPinmap[k].sig) = {}
       /\ identifier(targetPinmap[k]) # ""
       /\ ~HasKey(pinConfigurations, targetPinmap[k].pin)
  /\ tableBefore # EmptyConfig

\* the entries of an index in the order the three loops visit them
scanOrder(ps) ==
  Concat([p \in DOMAIN ps |->
            Concat([m \in DOMAIN ps[p].pinmaps |->
                      [k \in DOMAIN ps[p].pinmaps[m] |-> <<p, m, k>>]])])

\* the entry at the position is named by f and, with a candidate pin, is
\* routed to it
entryMatches(ps, pos, f, candidatePin) ==
  LET suffix == IF pos[2] = 1 THEN "" ELSE "_" \o ToString(pos[2] - 1)
      entry == ps[pos[1]].pinmaps[pos[2]][pos[3]]
  IN  /\ (candidatePin = "" \/ entry.pin = candidatePin)
      /\ \/ f = ps[pos[1]].key \o "_" \o entry.sig \o suffix
         \/ f = entry.sig \o suffix

\* positions of the scan order that match the call's arguments
matching ==
  {n \in DOMAIN scanOrder(resolution.peripherals) :
     entryMatches(resolution.peripherals, scanOrder(resolution.peripherals)[n],
                  resolution.funcName, resolution.pinName)}

firstMatching ==
  scanOrder(resolution.peripherals)[CHOOSE n \in matching : \A k \in matching : n <= k]

\* C23: findFunctionContext(f, candidatePin) returns the first entry, in the
\* order peripherals, then schemes by ascending index, then signals as
\* declared, whose identifier (P_S + suffix or S + suffix) is f and whose pin
\* is the candidate pin when one is given; it returns none when no entry
\* matches or no chip is loaded.
C23_ResolverOrder ==
  resolution.done =>
    IF ~resolution.loaded \/ matching = {}
    THEN resolution.result = NoContext
    ELSE /\ resolution.result # NoContext
         /\ resolution.result.periphName = resolution.peripherals[firstMatching[1]].key
         /\ resolution.result.mapIndex = firstMatching[2] - 1
         /\ resolution.result.signalName =
              resolution.peripherals[firstMatching[1]].pinmaps[firstMatching[2]][firstMatching[3]].sig

\* a call whose function name matched several entries and returned the first
C23_Witness ==
  /\ resolution.done /\ resolution.loaded
  /\ Cardinality(matching) > 1
  /\ resolution.result # NoContext
  /\ resolution.funcName = "TIM1_CH1_1"
  /\ resolution.result.mapIndex = 0

\* the identifier of the entry at a position, in full and in bare form
identifiersAt(ps, pos) ==
  LET suffix == IF pos[2] = 1 THEN "" ELSE "_" \o ToString(pos[2] - 1)
      entry == ps[pos[1]].pinmaps[pos[2]][pos[3]]
  IN  {ps[pos[1]].key \o "_" \o entry.sig \o suffix, entry.sig \o suffix}

pinAt(ps, pos) == ps[pos[1]].pinmaps[pos[2]][pos[3]].pin

\* the result is the (peripheral, signal) of the entry at the position
returnsPair(pos) ==
  /\ resolution.result # NoContext
  /\ resolution.result.periphName = resolution.peripherals[pos[1]].key
  /\ resolution.result.signalName =
       resolution.peripherals[pos[1]].pinmaps[pos[2]][pos[3]].sig

returnsEntry(pos) == returnsPair(pos) /\ resolution.result.mapIndex = pos[2] - 1

\* the call was made with the identifier of the entry at position n
resolvedIdentifierOf(n) ==
  /\ resolution.done /\ resolution.loaded
  /\ resolution.funcName
       \in identifiersAt(resolution.peripherals, scanOrder(resolution.peripherals)[n])

withCandidateOf(n) ==
  resolution.pinName = pinAt(resolution.peripherals, scanOrder(resolution.peripherals)[n])

\* the statement of C24 read word for word
C24_RoundTrip_Literal ==
  \A n \in DOMAIN scanOrder(resolution.peripherals) :
    resolvedIdentifierOf(n) =>
      /\ withCandidateOf(n) => returnsEntry(scanOrder(resolution.peripherals)[n])
      /\ resolution.pinName = "" => returnsPair(scanOrder(resolution.peripherals)[n])

\* no entry scanned before position n carries the name the call was made with
firstCarrier(n) == \A k \in matching : n <= k

\* C24: for every (P, i, S) routed to pin p in the index, resolving its
\* identifier with candidate pin p returns (P, S, i) when no earlier entry
\* routed to p carries the identifier, and resolving it without a candidate
\* pin returns (P, S, i) when no earlier entry of the index carries it;
\* otherwise the first entry carrying the identifier is returned.
C24_RoundTrip ==
  \A n \in DOMAIN scanOrder(resolution.peripherals) :
    (resolvedIdentifierOf(n) /\ (withCandidateOf(n) \/ resolution.pinName = ""))
      => IF firstCarrier(n)
         THEN returnsEntry(scanOrder(resolution.peripherals)[n])
         ELSE returnsEntry(firstMatching)

\* the identifier of USART1 TX under scheme 1 resolved with and without PB6
C24_Witness ==
  /\ resolution.done /\ resolution.loaded
  /\ resolution.funcName = "USART1_TX_1"
  /\ resolution.pinName = "PB6"
  /\ resolution.result.periphName = "USART1"
  /\ resolution.result.signalName = "TX"
  /\ resolution.result.mapIndex = 1

\* the fixed identity of a power, gnd, reset or boot pin
fixedIdentity(pinName, type) ==
  CASE type = "gnd" -> "GND"
    [] type = "reset" -> "NRST"
    [] OTHER -> pinName

\* C25: every pin of type power, gnd, reset or boot in the compiled table
\* has exactly one function, its fixed identity (its own name, GND for a
\* gnd pin, NRST for the reset pin), also when a mapping names the pin.
C25_FixedSingleFunction ==
  compiledOnce =>
    \A i \in DOMAIN compiledPins :
      compiledPins[i].type \in {"power", "gnd", "reset", "boot"}
        => compiledPins[i].functions
             = <<fixedIdentity(compiledPins[i].name, compiledPins[i].type)>>

\* the function names the mappings give to a pin
mappedFunctions(pinName) ==
  {(IF rawTuples[t].subKey = "" \/ rawTuples[t].subKey = "default"
    THEN rawTuples[t].signalName
    ELSE rawTuples[t].subKey \o "_" \o rawTuples[t].signalName) :
     t \in {t \in DOMAIN rawTuples : rawTuples[t].pinName = pinName}}

\* C26: every gpio pin of the compiled table has GPIO exactly once, at
\* index 0, followed by the functions the mappings give it, none of them
\* twice, whether or not a mapping gave the pin a function named GPIO.
C26_GpioSentinel ==
  compiledOnce =>
    \A i \in DOMAIN compiledPins :
      compiledPins[i].type = "gpio" =>
        /\ Len(compiledPins[i].functions) >= 1
        /\ compiledPins[i].functions[1] = "GPIO"
        /\ \A j, k \in DOMAIN compiledPins[i].functions :
             compiledPins[i].functions[j] = compiledPins[i].functions[k] => j = k
        /\ {compiledPins[i].functions[j] : j \in 2..Len(compiledPins[i].functions)}
             = mappedFunctions(compiledPins[i].name) \ {"GPIO"}

\* a gpio pin to which a mapping gave a function and then the function GPIO
C26_Witness ==
  /\ compiledOnce
  /\ \E i \in DOMAIN compiledPins :
       /\ compiledPins[i].type = "gpio"
       /\ "GPIO" \in mappedFunctions(compiledPins[i].name)
       /\ compiledPins[i].functions = <<"GPIO", "SWCLK">>

\* the entry resolves to another peripheral than the call did, or to none
outsidePeripheral(func) ==
  LET outside(c) == c = NoContext \/ c.periphName # last.context.periphName
  IN  outside(contextOf(currentChip, func, ""))

\* C27: a setPinFunction call that resolved to peripheral P and committed
\* neither removes nor changes the entry of any other pin whose function
\* resolves to a peripheral other than P or to no peripheral.
C27_CrossPeripheralFrame ==
  assignedWithContext =>
    \A q \in (DOMAIN tableBefore) \ {last.pin} :
      outsidePeripheral(tableBefore[q])
        => HasKey(pinConfigurations, q) /\ pinConfigurations[q] = tableBefore[q]

\* USART1 TX moved from PA9 to PB6 while PB7 kept SPI1_MISO
C27_Witness ==
  /\ currentChip = 1 /\ assignedWithContext
  /\ tableBefore = [PA9 |-> "USART1_TX", PB7 |-> "SPI1_MISO"]
  /\ pinConfigurations = [PB6 |-> "USART1_TX_1", PB7 |-> "SPI1_MISO"]

\* the step is a setPinFunction call with the arguments of the committed
\* call before it
repeatedCall ==
  /\ lastWasSetPin /\ last.outcome = "assigned"
  /\ last'.op = "setPinFunction"
  /\ last'.pin = last.pin /\ last'.func = last.func
  /\ last'.before.pinConfigurations = pinConfigurations

\* C28: when setPinFunction(pin, F) has committed a table, the same call
\* made again on that table commits the same table and records no conflict.
C28_Idempotent ==
  [][repeatedCall =>
       /\ last'.outcome = "assigned"
       /\ last'.conflicts = << >>
       /\ pinConfigurations' = pinConfigurations]_vars

\* a committed call with a resolved context on a table in which the pin
\* already held the function and a sibling already sat on its target pin
C28_Witness ==
  /\ assignedWithContext
  /\ HasKey(tableBefore, last.pin) /\ tableBefore[last.pin] = last.func
  /\ pinConfigurations = tableBefore
  /\ \E k \in siblings : heldBefore(targetPinmap[k].sig) = {targetPinmap[k].pin}

lastWasClear == last.op = "clearConfigurations"

\* the step loads the chip that is loaded already
reloadsSameChip == last'.op = "loadChip" /\ currentChip # NoChip /\ currentChip' = currentChip

\* C29: clearConfigurations leaves the table empty, removes the saved table
\* of the loaded chip and keeps the chip loaded, so that usageStats.occupied
\* is the number of fixed package pins; a loadChip of the same chip that
\* follows starts with the empty table.
C29_ClearAll ==
  /\ [](lastWasClear =>
          /\ pinConfigurations = EmptyConfig
          /\ currentChip = last.before.currentChip
          /\ currentChip # NoChip =>
               /\ storageKey(currentChip) \notin DOMAIN localStorage
               /\ usageStats(currentChip, pinConfigurations).occupied
                    = Cardinality(fixedInPackage(currentChip)))
  /\ [][(lastWasClear /\ reloadsSameChip) => pinConfigurations' = EmptyConfig]_vars

\* a table with entries, saved, was cleared on a chip that has a fixed pin
C29_Witness ==
  /\ lastWasClear /\ currentChip # NoChip
  /\ last.before.pinConfigurations # EmptyConfig
  /\ storageKey(currentChip) \in DOMAIN last.before.localStorage
  /\ fixedInPackage(currentChip) # {}
  /\ pinConfigurations = EmptyConfig

\* the functions of the card's peripheral for the signal under scheme o:
\* the signal name and Peripheral_Signal, with the suffix of o
schemeFunctions(signal, o) ==
  LET suffix == IF o = 0 THEN "" ELSE "_" \o ToString(o)
  IN  {signal \o suffix, cardName(currentChip, card.periph) \o "_" \o signal \o suffix}

\* the scheme the selector left, as its signal -> pin entries
oldMap == cardPinmaps(currentChip, card.periph)[card.oldVal + 1]

\* the pin holds, in the table, a function of a signal that the old scheme
\* routes to it
holdsOldScheme(config, pinName) ==
  /\ HasKey(config, pinName)
  /\ \E k \in DOMAIN oldMap :
       oldMap[k].pin = pinName /\ config[pinName] \in schemeFunctions(oldMap[k].sig, card.oldVal)

\* the step is the watcher's callback
watcherStep == card.pending /\ ~card'.pending

\* C30: when the selected scheme index of a card changes from o to n, the
\* watcher leaves a table in which no pin of scheme o holds the card's
\* scheme-o function of the signal that scheme o routes to it, and in which
\* the entries of all pins that held other functions are as before.
C30_SchemeSwitch ==
  [][watcherStep =>
       /\ \A q \in DOMAIN pinConfigurations' : ~holdsOldScheme(pinConfigurations', q)
       /\ DOMAIN pinConfigurations' \subseteq DOMAIN pinConfigurations
       /\ \A q \in DOMAIN pinConfigurations :
            ~holdsOldScheme(pinConfigurations, q)
              => HasKey(pinConfigurations', q) /\ pinConfigurations'[q] = pinConfigurations[q]]_vars

\* the selector went from scheme 0 to scheme 1; the watcher removed the
\* USART1 entries of scheme 0 and kept PB7 -> SPI1_MISO
C30_Witness ==
  /\ currentChip = 1 /\ card.ran /\ ~card.pending
  /\ card.oldVal = 0 /\ card.selectedMapIndex = 1
  /\ card.before = [PA9 |-> "USART1_TX", PA10 |-> "USART1_RX", PB7 |-> "SPI1_MISO"]
  /\ pinConfigurations = [PB7 |-> "SPI1_MISO"]

====
